---- MODULE Spec2Model ----
(***************************************************************************)
(* Restaurant POS backend: the order lifecycle handlers over the store     *)
(* (orders, order_items, tables) and the WebSocket notification manager.   *)
(*                                                                         *)
(* Money is held in units of 1/10000 of the currency unit, so that a price *)
(* in whole cents times a rate in whole percent is an exact integer.       *)
(***************************************************************************)
EXTENDS Integers, Sequences, FiniteSets, TLC

\* ------------------------------------------------------------------ bounds
MaxOrders == 2
NumTables == 2
MaxTime == 2
MaxRequests == 3
NumCallers == 2
NumConns == 2
NumPublishers == 1

\* --------------------------------------------------------------- constants
\* A nil *uint / *time.Time column (NULL in the store).
NULL == 0

\* RestaurantSettings.TaxRate 0.14 and ServiceCharge 0.10, in percent.
TaxRatePct == 14
ServiceChargePct == 10

\* Units of money per currency unit.
MoneyScale == 10000

TableIDs == 1..NumTables

OrderStatuses ==
    <<"pending", "confirmed", "preparing", "ready", "served", "completed", "cancelled">>

StatusSet == {OrderStatuses[i] : i \in 1..Len(OrderStatuses)}

TerminalStatuses == {"completed", "cancelled"}

\* The statuses a client sends to PUT /tables/:id/status.
TableStatusInputs == {"available", "occupied", "dirty"}

\* Menu: item 1 costs 10.00, item 2 costs 5.00, item 3 costs 8.00; any other
\* id is not in the menu and First() leaves the zero-value MenuItem (price 0).
MenuPrice(m) ==
    CASE m = 1 -> 10 * MoneyScale
      [] m = 2 -> 5 * MoneyScale
      [] m = 3 -> 8 * MoneyScale
      [] OTHER -> 0

\* The rows of menu_items; First(&menuItem, id) finds nothing for any other id
\* and leaves menuItem zero-valued.
MenuItemIDs == {1, 2, 3}

\* menu_items.is_available: item 3 has been switched off.
IsAvailable(m) == m \in {1, 2}

\* Modifier options: option 1 adds 1.00 to the price of the item it is chosen for.
ModifierPrice(k) ==
    CASE k = 1 -> 1 * MoneyScale
      [] OTHER -> 0

\* Request item lists sent to POST /orders: (menu_item_id, quantity) pairs.
\* `modifiers` is the set of modifier options named by the request's JSON string.
ItemRequests == { << [menu_item_id |-> 1, quantity |-> 2, modifiers |-> {1}],
                     [menu_item_id |-> 2, quantity |-> 1, modifiers |-> {}] >> }

VARIABLES
    orders,        \* orders table: id -> row
    orderItems,    \* order_items table: id -> row
    tables,        \* tables table: id -> [status, current_order_id]
    nextOrderID,   \* AUTO_INCREMENT of orders
    nextItemID,    \* AUTO_INCREMENT of order_items
    now,           \* wall clock, in seconds
    resp,          \* the last HTTP response, with the request it answers
    requests,      \* number of requests served so far
    xfer,          \* transfer requests in flight: caller -> position and request
    itemCalls,     \* item requests in flight: caller -> position and request
    loyalty,       \* customer 1's row, loyalty_transactions, and the loyalty calls in flight
    clients,       \* WebSocketManager.Clients: the connections in the registry
    conn,          \* connection -> its handler's position, its link, its subscriptions
    delivered,     \* connection -> the messages written to it, in order
    run,           \* the goroutine of WebSocketManager.Run
    pub,           \* publishing task -> its call and its position in it
    fatal          \* the Go runtime has stopped the process

dbVars == <<orders, orderItems, tables, nextOrderID, nextItemID>>
hubVars == <<clients, conn, delivered, run, pub, fatal>>
vars == <<orders, orderItems, tables, nextOrderID, nextItemID, now, resp, requests, xfer,
          itemCalls, loyalty, clients, conn, delivered, run, pub, fatal>>

Callers == 1..NumCallers
Conns == 1..NumConns
Publishers == 1..NumPublishers

\* ------------------------------------------------------------------ helpers
\* subtotal += float64(itemReq.Quantity) * menuItem.Price, over the request.
RECURSIVE RequestSubtotal(_)
RequestSubtotal(items) ==
    IF items = << >> THEN 0
    ELSE Head(items).quantity * MenuPrice(Head(items).menu_item_id)
         + RequestSubtotal(Tail(items))

\* A faulty variant of TaxOf: the tax is taken on subtotal plus service charge.
TaxOnServiceToo(subtotal) ==
    (((subtotal * (100 + ServiceChargePct)) \div 100) * TaxRatePct) \div 100

\* subtotal * settings.TaxRate
TaxOf(subtotal) == (subtotal * TaxRatePct) \div 100

\* subtotal * settings.ServiceCharge
ServiceChargeOf(subtotal) == (subtotal * ServiceChargePct) \div 100

\* Position of a status in the lifecycle order.
StatusRank(s) == CHOOSE i \in 1..Len(OrderStatuses) : OrderStatuses[i] = s

IsTerminal(s) == s \in TerminalStatuses

\* An order that is in the store and not completed or cancelled.
IsActive(o) == o \in DOMAIN orders /\ ~IsTerminal(orders[o].status)

Response(op, code, order, table, to, status) ==
    [op |-> op, code |-> code, order |-> order, table |-> table, to |-> to,
     status |-> status]

\* The Order row HandleCreateOrder builds before DB.Create.
NewOrder(tableReq, items, orderNumber) ==
    LET subtotal == RequestSubtotal(items)
        taxAmount == TaxOf(subtotal)
        serviceCharge == ServiceChargeOf(subtotal)
    IN [ order_number   |-> orderNumber,
         table_id       |-> tableReq,
         status         |-> "pending",
         payment_status |-> "unpaid",
         subtotal       |-> subtotal,
         tax_amount     |-> taxAmount,
         service_charge |-> serviceCharge,
         discount       |-> 0,
         total          |-> subtotal + taxAmount + serviceCharge,
         paid_amount    |-> 0,
         remaining      |-> 0,
         started_at     |-> NULL,
         completed_at   |-> NULL,
         cancelled_at   |-> NULL ]

\* The OrderItem rows HandleCreateOrder stores for a request, ids from `first`.
NewOrderItems(orderID, items, first) ==
    [ i \in first..(first + Len(items) - 1) |->
        LET itemReq == items[i - first + 1]
        IN [ order_id     |-> orderID,
             menu_item_id |-> itemReq.menu_item_id,
             quantity     |-> itemReq.quantity,
             unit_price   |-> MenuPrice(itemReq.menu_item_id),
             modifiers    |-> itemReq.modifiers,
             status       |-> "pending" ] ]

\* UPDATE tables SET status='occupied', current_order_id=orderID WHERE id=tableID
OccupyTable(tbls, tableID, orderID) ==
    [t \in DOMAIN tbls |->
        IF t = tableID
        THEN [status |-> "occupied", current_order_id |-> orderID]
        ELSE tbls[t]]

\* UPDATE tables SET status='available', current_order_id=NULL WHERE id=tableID
FreeTable(tbls, tableID) ==
    [t \in DOMAIN tbls |->
        IF t = tableID
        THEN [status |-> "available", current_order_id |-> NULL]
        ELSE tbls[t]]

\* UPDATE tables SET status=s WHERE id=tableID
SetTableStatus(tbls, tableID, s) ==
    [t \in DOMAIN tbls |->
        IF t = tableID THEN [tbls[t] EXCEPT !.status = s] ELSE tbls[t]]

\* UPDATE orders SET table_id=toID WHERE table_id=fromID
MoveOrders(ords, fromID, toID) ==
    [o \in DOMAIN ords |->
        IF ords[o].table_id = fromID
        THEN [ords[o] EXCEPT !.table_id = toID]
        ELSE ords[o]]

\* A faulty variant of StatusUpdates: completing an order stamps completed_at
\* but leaves payment_status as it was.
StatusUpdatesKeepsPayment(order, status, time) ==
    CASE status = "confirmed" ->
            [order EXCEPT !.status = status, !.started_at = time]
      [] status = "completed" ->
            [order EXCEPT !.status = status, !.completed_at = time]
      [] status = "cancelled" ->
            [order EXCEPT !.status = status, !.cancelled_at = time]
      [] OTHER ->
            [order EXCEPT !.status = status]

\* The updates map of HandleUpdateOrderStatus applied to the order row.
StatusUpdates(order, status, time) ==
    CASE status = "confirmed" ->
            [order EXCEPT !.status = status, !.started_at = time]
      [] status = "completed" ->
            [order EXCEPT !.status = status, !.completed_at = time,
                          !.payment_status = "paid"]
      [] status = "cancelled" ->
            [order EXCEPT !.status = status, !.cancelled_at = time]
      [] OTHER ->
            [order EXCEPT !.status = status]

\* A faulty variant of TablesAfterStatus: the table is freed on completed only.
TablesAfterStatusCompletedOnly(tbls, order, status) ==
    IF status = "completed" /\ order.table_id # NULL
    THEN FreeTable(tbls, order.table_id)
    ELSE tbls

\* "Free table if order is completed or cancelled"
TablesAfterStatus(tbls, order, status) ==
    IF status \in {"completed", "cancelled"} /\ order.table_id # NULL
    THEN FreeTable(tbls, order.table_id)
    ELSE tbls

\* --------------------------------------------------------------------- Init
IdleRun == [pc |-> "select", from |-> NULL, room |-> "", todo |-> {}, cur |-> NULL]

IdlePublisher == [pc |-> "idle", plan |-> << >>, todo |-> {}, cur |-> NULL]

IdleTransfer == [pc |-> "idle", id |-> NULL, to |-> NULL, code |-> 0, moving |-> {}]

IdleLoyaltyCall == [pc |-> "idle", op |-> "", points |-> 0, held |-> 0]

\* Customer 1 with the column defaults (points 0, total_spent 0, visits_count 0),
\* no loyalty_transactions, nobody calling.  `redeemed` and `earned` add up the
\* points of the RedeemLoyaltyPoints and AddLoyaltyPoints calls that returned nil.
InitialLoyalty ==
    [ points       |-> 0,
      total_spent  |-> 0,
      visits_count |-> 0,
      transactions |-> << >>,
      calls        |-> [p \in Callers |-> IdleLoyaltyCall],
      begun        |-> 0,
      earned       |-> 0,
      redeemed     |-> 0 ]

IdleItemCall == [pc |-> "idle", op |-> "", id |-> NULL, subtotal |-> 0]

Init ==
    /\ orders = << >>
    /\ orderItems = << >>
    /\ tables = [t \in TableIDs |-> [status |-> "available", current_order_id |-> NULL]]
    /\ nextOrderID = 1
    /\ nextItemID = 1
    /\ now = 1
    /\ resp = Response("none", 0, NULL, NULL, NULL, "")
    /\ requests = 0
    /\ xfer = [p \in Callers |-> IdleTransfer]
    /\ itemCalls = [p \in Callers |-> IdleItemCall]
    /\ loyalty = InitialLoyalty
    /\ clients = {}
    /\ conn = [c \in Conns |-> [state |-> "new", link |-> "ok", rooms |-> {}]]
    /\ delivered = [c \in Conns |-> << >>]
    /\ run = IdleRun
    /\ pub = [p \in Publishers |-> IdlePublisher]
    /\ fatal = FALSE

\* ------------------------------------------- handlers, one request at a time
\* Time passes.
Tick ==
    /\ now < MaxTime
    /\ now' = now + 1
    /\ UNCHANGED <<dbVars, resp, requests, xfer, itemCalls, loyalty, hubVars>>

\* POST /orders
HandleCreateOrder(tableReq, items) ==
    /\ nextOrderID <= MaxOrders
    /\ LET orderNumber == now
       IN IF \E o \in DOMAIN orders : orders[o].order_number = orderNumber
          THEN \* DB.Create fails on the unique index of order_number
               /\ resp' = Response("CreateOrder", 500, NULL, tableReq, NULL, "")
               /\ UNCHANGED <<dbVars, hubVars>>
          ELSE /\ orders' = orders @@ (nextOrderID :> NewOrder(tableReq, items, orderNumber))
               /\ orderItems' = orderItems @@ NewOrderItems(nextOrderID, items, nextItemID)
               /\ nextItemID' = nextItemID + Len(items)
               /\ tables' = IF tableReq # NULL
                            THEN OccupyTable(tables, tableReq, nextOrderID)
                            ELSE tables
               /\ nextOrderID' = nextOrderID + 1
               /\ resp' = Response("CreateOrder", 201, nextOrderID, tableReq, NULL, "pending")
               /\ UNCHANGED hubVars

\* PUT /orders/:id with a body that sets status (every other field zero)
HandleUpdateOrder(id, status) ==
    IF id \notin DOMAIN orders
    THEN /\ resp' = Response("UpdateOrder", 404, id, NULL, NULL, status)
         /\ UNCHANGED <<dbVars, hubVars>>
    ELSE /\ orders' = [orders EXCEPT ![id].status = status]
         /\ resp' = Response("UpdateOrder", 200, id, NULL, NULL, status)
         /\ UNCHANGED <<orderItems, tables, nextOrderID, nextItemID, hubVars>>

\* DELETE /orders/:id; order_items cascade, tables.current_order_id is set NULL
HandleDeleteOrder(id) ==
    /\ orders' = [o \in DOMAIN orders \ {id} |-> orders[o]]
    /\ orderItems' = [i \in {j \in DOMAIN orderItems : orderItems[j].order_id # id}
                        |-> orderItems[i]]
    /\ tables' = [t \in DOMAIN tables |->
                    IF tables[t].current_order_id = id
                    THEN [tables[t] EXCEPT !.current_order_id = NULL]
                    ELSE tables[t]]
    /\ resp' = Response("DeleteOrder", 200, id, NULL, NULL, "")
    /\ UNCHANGED <<nextOrderID, nextItemID, hubVars>>

\* PUT /orders/:id/status
HandleUpdateOrderStatus(id, status) ==
    IF id \notin DOMAIN orders
    THEN /\ resp' = Response("UpdateOrderStatus", 404, id, NULL, NULL, status)
         /\ UNCHANGED <<dbVars, hubVars>>
    ELSE /\ orders' = [orders EXCEPT ![id] = StatusUpdates(orders[id], status, now)]
         /\ tables' = TablesAfterStatus(tables, orders[id], status)
         /\ resp' = Response("UpdateOrderStatus", 200, id, NULL, NULL, status)
         /\ UNCHANGED <<orderItems, nextOrderID, nextItemID, hubVars>>

\* PUT /tables/:id/status
HandleUpdateTableStatus(id, status) ==
    /\ tables' = SetTableStatus(tables, id, status)
    /\ resp' = Response("UpdateTableStatus", 200, NULL, id, NULL, status)
    /\ UNCHANGED <<orders, orderItems, nextOrderID, nextItemID, hubVars>>

\* PUT /tables/:id/transfer
HandleTransferTable(id, toTableID) ==
    /\ tables' = SetTableStatus(FreeTable(tables, id), toTableID, "occupied")
    /\ orders' = MoveOrders(orders, id, toTableID)
    /\ resp' = Response("TransferTable", 200, NULL, id, toTableID, "")
    /\ UNCHANGED <<orderItems, nextOrderID, nextItemID, hubVars>>

\* One more request is served, by one handler run from start to end.
Serve ==
    /\ requests < MaxRequests
    /\ requests' = requests + 1
    /\ UNCHANGED <<now, xfer, itemCalls, loyalty>>

CreateOrder ==
    \E t \in TableIDs \cup {NULL}, items \in ItemRequests :
        Serve /\ HandleCreateOrder(t, items)

UpdateOrder ==
    \E id \in 1..MaxOrders, s \in StatusSet : Serve /\ HandleUpdateOrder(id, s)

DeleteOrder ==
    \E id \in 1..MaxOrders : Serve /\ HandleDeleteOrder(id)

UpdateOrderStatus ==
    \E id \in 1..MaxOrders, s \in StatusSet : Serve /\ HandleUpdateOrderStatus(id, s)

UpdateTableStatus ==
    \E t \in TableIDs, s \in TableStatusInputs : Serve /\ HandleUpdateTableStatus(t, s)

TransferTable ==
    \E t \in TableIDs, to \in TableIDs : Serve /\ HandleTransferTable(t, to)

Next ==
    \/ Tick
    \/ CreateOrder
    \/ UpdateOrder
    \/ DeleteOrder
    \/ UpdateOrderStatus
    \/ UpdateTableStatus
    \/ TransferTable

Spec == Init /\ [][Next]_vars

\* ----------------------------- HandleTransferTable, one store write at a time
\* Two callers run HandleTransferTable at once; each of its three UPDATEs is a
\* statement of its own (SkipDefaultTransaction, no transaction around them).
\* The orders a transfer away from table id is about (kept for the properties;
\* the handler itself reads nothing before it writes).
OrdersOn(id) == {o \in DOMAIN orders : orders[o].table_id = id}

\* The request arrives and the first UPDATE frees the old table.
TransferFreeOld(p, id, toTableID) ==
    /\ xfer[p].pc = "idle"
    /\ tables' = FreeTable(tables, id)
    /\ xfer' = [xfer EXCEPT ![p] = [pc |-> "freed", id |-> id, to |-> toTableID,
                                    code |-> 0, moving |-> OrdersOn(id)]]
    /\ UNCHANGED <<orders, orderItems, nextOrderID, nextItemID, now, resp, requests, itemCalls, loyalty, hubVars>>

\* The second UPDATE marks the new table occupied.
TransferAssignNew(p) ==
    /\ xfer[p].pc = "freed"
    /\ tables' = SetTableStatus(tables, xfer[p].to, "occupied")
    /\ xfer' = [xfer EXCEPT ![p].pc = "assigned"]
    /\ UNCHANGED <<orders, orderItems, nextOrderID, nextItemID, now, resp, requests, itemCalls, loyalty, hubVars>>

\* The third UPDATE moves the orders of the old table.
TransferUpdateOrder(p) ==
    /\ xfer[p].pc = "assigned"
    /\ orders' = MoveOrders(orders, xfer[p].id, xfer[p].to)
    /\ xfer' = [xfer EXCEPT ![p].pc = "moved"]
    /\ UNCHANGED <<tables, orderItems, nextOrderID, nextItemID, now, resp, requests, itemCalls, loyalty, hubVars>>

\* c.JSON(http.StatusOK, ...)
TransferRespond(p) ==
    /\ xfer[p].pc = "moved"
    /\ xfer' = [xfer EXCEPT ![p].pc = "done", ![p].code = 200]
    /\ resp' = Response("TransferTable", 200, NULL, xfer[p].id, xfer[p].to, "")
    /\ UNCHANGED <<dbVars, now, requests, itemCalls, loyalty, hubVars>>

TransferBegin == \E p \in Callers, t \in TableIDs, to \in TableIDs : TransferFreeOld(p, t, to)
TransferStep2 == \E p \in Callers : TransferAssignNew(p)
TransferStep3 == \E p \in Callers : TransferUpdateOrder(p)
TransferEnd == \E p \in Callers : TransferRespond(p)

\* Orders are placed first; the transfers then run against them.
PlaceOrder ==
    /\ \A p \in Callers : xfer[p].pc = "idle"
    /\ CreateOrder

NextTransfer ==
    \/ Tick
    \/ PlaceOrder
    \/ TransferBegin
    \/ TransferStep2
    \/ TransferStep3
    \/ TransferEnd

SpecTransfer == Init /\ [][NextTransfer]_vars

\* ======================================================= WebSocketManager
\* The unbuffered channels Register, Unregister and Broadcast hand a value over
\* in one step taken by the sender and by Run together, and only while Run is
\* at its select.

\* The primitive publishing calls a notification helper makes, in order.
ToRoom(room) == [via |-> "SendToRoom", room |-> room]
ToAll == [via |-> "Broadcast", room |-> "all"]

\* WebSocketManager.CreateOrderStatusNotification
CreateOrderStatusNotificationPlan(newStatus) ==
    CASE newStatus = "ready"     -> <<ToRoom("kitchen"), ToRoom("waiters"), ToAll>>
      [] newStatus = "completed" -> <<ToRoom("pos"), ToRoom("tables"), ToAll>>
      [] OTHER                   -> <<ToAll>>

\* NotificationService.SendOrderStatusUpdate
SendOrderStatusUpdatePlan(newStatus) ==
    <<ToAll>>
    \o (IF newStatus = "ready" THEN <<ToRoom("kitchen")>> ELSE << >>)
    \o (IF newStatus \in {"completed", "cancelled"} THEN <<ToRoom("pos")>> ELSE << >>)

\* WebSocketManager.CreateItemStatusNotification
CreateItemStatusNotificationPlan == <<ToRoom("kitchen")>>

\* WebSocketManager.CreateDashboardUpdateNotification (the 30 s ticker of main)
CreateDashboardUpdateNotificationPlan == <<ToRoom("dashboard")>>

\* The statuses the order-status helpers are called with.
NotifiedStatuses == {"ready", "completed", "cancelled"}

\* The rooms a client asks for in its subscribe message.
SubscribeRooms == {"kitchen", "pos"}

\* How a connection's transport behaves on a write: it completes, it fails,
\* or it never completes.
Links == {"ok", "broken", "slow"}

\* A task is inside `for client := range m.Clients`.
InLoop(t) == t.pc \in {"iter", "write", "del"}

\* Run is about to write m.Clients.
RunModifies == run.pc \in {"register", "unregister", "del"}

\* A publishing task is using m.Clients while Run writes it.
PublisherUsesRegistry == \E q \in Publishers : InLoop(pub[q])

\* Run or another publishing task is using m.Clients while task p writes it.
OthersUseRegistry(p) ==
    \/ InLoop(run) \/ RunModifies
    \/ \E q \in Publishers : q # p /\ InLoop(pub[q])

\* A write to m.Clients racing with another task's use of it is a data race:
\* the runtime may throw ("concurrent map iteration and map write").
MayThrow(raced) == fatal' \in (IF raced THEN {FALSE, TRUE} ELSE {FALSE})

\* client.WriteMessage(websocket.TextMessage, data)
WriteCompletes(c) == conn[c].link = "ok" /\ conn[c].state # "closed"
WriteFails(c) == conn[c].link = "broken" \/ (conn[c].link = "ok" /\ conn[c].state = "closed")

\* Where a publishing task stands when it starts the calls of `plan`.
Enter(plan) ==
    IF plan = << >>
    THEN [pc |-> "done", plan |-> plan, todo |-> {}, cur |-> NULL]
    ELSE IF Head(plan).via = "Broadcast"
    THEN [pc |-> "send", plan |-> plan, todo |-> {}, cur |-> NULL]
    ELSE [pc |-> "iter", plan |-> plan, todo |-> clients, cur |-> NULL]

\* ---- connections: HandleWebSocket and handleConnection
\* The upgrade succeeds; the handler blocks on m.Register <- conn.
Connect(c, link) ==
    /\ ~fatal
    /\ conn[c].state = "new"
    /\ conn' = [conn EXCEPT ![c].state = "registering", ![c].link = link]
    /\ UNCHANGED <<clients, delivered, run, pub, fatal>>

\* A subscribe message arrives: handleConnection logs the room and keeps nothing.
\* The room asked for is kept here for the properties only.
Subscribe(c, room) ==
    /\ ~fatal
    /\ conn[c].state = "reading"
    /\ conn[c].rooms = {}
    /\ conn' = [conn EXCEPT ![c].rooms = {room}]
    /\ UNCHANGED <<clients, delivered, run, pub, fatal>>

\* ReadMessage fails; the deferred function blocks on m.Unregister <- conn.
ReadError(c) ==
    /\ ~fatal
    /\ conn[c].state = "reading"
    /\ conn' = [conn EXCEPT ![c].state = "unregistering"]
    /\ UNCHANGED <<clients, delivered, run, pub, fatal>>

\* The deferred function of handleConnection, after its send: conn.Close()
Close(c) ==
    /\ ~fatal
    /\ conn[c].state = "closing"
    /\ conn' = [conn EXCEPT ![c].state = "closed"]
    /\ UNCHANGED <<clients, delivered, run, pub, fatal>>

\* ---- Run
\* case client := <-m.Register
RunRecvRegister(c) ==
    /\ ~fatal
    /\ run.pc = "select"
    /\ conn[c].state = "registering"
    /\ run' = [run EXCEPT !.pc = "register", !.cur = c]
    /\ conn' = [conn EXCEPT ![c].state = "reading"]
    /\ UNCHANGED <<clients, delivered, pub, fatal>>

\* m.Clients[client] = true; a loop under way in another task may or may not
\* produce the new entry.
RunInsert(seen) ==
    /\ ~fatal
    /\ run.pc = "register"
    /\ seen \subseteq {p \in Publishers : InLoop(pub[p])}
    /\ clients' = clients \cup {run.cur}
    /\ pub' = [p \in Publishers |->
                 IF p \in seen THEN [pub[p] EXCEPT !.todo = @ \cup {run.cur}] ELSE pub[p]]
    /\ run' = IdleRun
    /\ MayThrow(PublisherUsesRegistry)
    /\ UNCHANGED <<conn, delivered>>

\* case client := <-m.Unregister; the sender goes on to conn.Close()
RunRecvUnregister(c) ==
    /\ ~fatal
    /\ run.pc = "select"
    /\ conn[c].state = "unregistering"
    /\ run' = [run EXCEPT !.pc = "unregister", !.cur = c]
    /\ conn' = [conn EXCEPT ![c].state = "closing"]
    /\ UNCHANGED <<clients, delivered, pub, fatal>>

\* delete(m.Clients, client)
RunRemove ==
    /\ ~fatal
    /\ run.pc = "unregister"
    /\ clients' = clients \ {run.cur}
    /\ run' = IdleRun
    /\ MayThrow(PublisherUsesRegistry)
    /\ UNCHANGED <<conn, delivered, pub>>

\* A faulty variant of RunRecvBroadcast: the loop covers only the connections
\* that have subscribed to some room.
RunRecvBroadcastSubscribed(p) ==
    /\ ~fatal
    /\ run.pc = "select"
    /\ pub[p].pc = "send"
    /\ run' = [pc |-> "iter", from |-> p, room |-> Head(pub[p].plan).room,
               todo |-> {c \in clients : conn[c].rooms # {}}, cur |-> NULL]
    /\ pub' = [pub EXCEPT ![p] = Enter(Tail(pub[p].plan))]
    /\ UNCHANGED <<clients, conn, delivered, fatal>>

\* case message := <-m.Broadcast; the sender's m.Broadcast <- data completes
RunRecvBroadcast(p) ==
    /\ ~fatal
    /\ run.pc = "select"
    /\ pub[p].pc = "send"
    /\ run' = [pc |-> "iter", from |-> p, room |-> Head(pub[p].plan).room,
               todo |-> clients, cur |-> NULL]
    /\ pub' = [pub EXCEPT ![p] = Enter(Tail(pub[p].plan))]
    /\ UNCHANGED <<clients, conn, delivered, fatal>>

\* for client := range m.Clients: the next entry, or the end of the loop
RunIterNext ==
    /\ ~fatal
    /\ run.pc = "iter"
    /\ IF run.todo \cap clients = {}
       THEN run' = IdleRun
       ELSE \E c \in run.todo \cap clients :
               run' = [run EXCEPT !.pc = "write", !.cur = c, !.todo = @ \ {c}]
    /\ UNCHANGED <<clients, conn, delivered, pub, fatal>>

\* err := client.WriteMessage(...)
RunWrite ==
    /\ ~fatal
    /\ run.pc = "write"
    /\ \/ /\ WriteCompletes(run.cur)
          /\ delivered' = [delivered EXCEPT ![run.cur] =
                              Append(@, [from |-> run.from, room |-> run.room])]
          /\ run' = [run EXCEPT !.pc = "iter", !.cur = NULL]
       \/ /\ WriteFails(run.cur)
          /\ run' = [run EXCEPT !.pc = "del"]
          /\ UNCHANGED delivered
    /\ UNCHANGED <<clients, conn, pub, fatal>>

\* if err != nil { delete(m.Clients, client) }
RunDelete ==
    /\ ~fatal
    /\ run.pc = "del"
    /\ clients' = clients \ {run.cur}
    /\ run' = [run EXCEPT !.pc = "iter", !.cur = NULL]
    /\ MayThrow(PublisherUsesRegistry)
    /\ UNCHANGED <<conn, delivered, pub>>

\* ---- publishing tasks (request handlers, the dashboard ticker)
\* A task calls one of the publishing functions.
Call(p, plan) ==
    /\ ~fatal
    /\ pub[p].pc = "idle"
    /\ pub' = [pub EXCEPT ![p] = Enter(plan)]
    /\ UNCHANGED <<clients, conn, delivered, run, fatal>>

\* A faulty variant of PubIterNext: the loop runs over the entries the registry
\* had when the loop began, whether or not they are still in it.
PubIterNextStale(p) ==
    /\ ~fatal
    /\ pub[p].pc = "iter"
    /\ IF pub[p].todo = {}
       THEN pub' = [pub EXCEPT ![p] = Enter(Tail(pub[p].plan))]
       ELSE \E c \in pub[p].todo :
               pub' = [pub EXCEPT ![p].pc = "write", ![p].cur = c, ![p].todo = @ \ {c}]
    /\ UNCHANGED <<clients, conn, delivered, run, fatal>>

\* SendToRoom: for client := range m.Clients: the next entry, or return
PubIterNext(p) ==
    /\ ~fatal
    /\ pub[p].pc = "iter"
    /\ IF pub[p].todo \cap clients = {}
       THEN pub' = [pub EXCEPT ![p] = Enter(Tail(pub[p].plan))]
       ELSE \E c \in pub[p].todo \cap clients :
               pub' = [pub EXCEPT ![p].pc = "write", ![p].cur = c, ![p].todo = @ \ {c}]
    /\ UNCHANGED <<clients, conn, delivered, run, fatal>>

\* SendToRoom: err := client.WriteMessage(...)
PubWrite(p) ==
    /\ ~fatal
    /\ pub[p].pc = "write"
    /\ \/ /\ WriteCompletes(pub[p].cur)
          /\ delivered' = [delivered EXCEPT ![pub[p].cur] =
                              Append(@, [from |-> p, room |-> Head(pub[p].plan).room])]
          /\ pub' = [pub EXCEPT ![p].pc = "iter", ![p].cur = NULL]
       \/ /\ WriteFails(pub[p].cur)
          /\ pub' = [pub EXCEPT ![p].pc = "del"]
          /\ UNCHANGED delivered
    /\ UNCHANGED <<clients, conn, run, fatal>>

\* SendToRoom: if err != nil { delete(m.Clients, client) }
PubDelete(p) ==
    /\ ~fatal
    /\ pub[p].pc = "del"
    /\ clients' = clients \ {pub[p].cur}
    /\ pub' = [pub EXCEPT ![p].pc = "iter", ![p].cur = NULL]
    /\ MayThrow(OthersUseRegistry(p))
    /\ UNCHANGED <<conn, delivered, run>>

Quiet == UNCHANGED <<dbVars, now, resp, requests, xfer, itemCalls, loyalty>>

ClientConnects == \E c \in Conns, l \in Links : Connect(c, l) /\ Quiet
ClientSubscribes == \E c \in Conns, r \in SubscribeRooms : Subscribe(c, r) /\ Quiet
ClientGone == \E c \in Conns : ReadError(c) /\ Quiet
ClientClosed == \E c \in Conns : Close(c) /\ Quiet

RunTakesRegister == \E c \in Conns : RunRecvRegister(c) /\ Quiet
RunRegisters == \E seen \in SUBSET Publishers : RunInsert(seen) /\ Quiet
RunTakesUnregister == \E c \in Conns : RunRecvUnregister(c) /\ Quiet
RunUnregisters == RunRemove /\ Quiet
RunTakesBroadcast == \E p \in Publishers : RunRecvBroadcast(p) /\ Quiet
RunNextClient == RunIterNext /\ Quiet
RunWrites == RunWrite /\ Quiet
RunDropsClient == RunDelete /\ Quiet

\* The steps of the Run goroutine.
RunStep ==
    \/ RunTakesRegister
    \/ RunRegisters
    \/ RunTakesUnregister
    \/ RunUnregisters
    \/ RunTakesBroadcast
    \/ RunNextClient
    \/ RunWrites
    \/ RunDropsClient

CallBroadcast ==
    \E p \in Publishers : Call(p, <<ToAll>>) /\ Quiet
CallCreateOrderStatusNotification ==
    \E p \in Publishers, s \in NotifiedStatuses :
        Call(p, CreateOrderStatusNotificationPlan(s)) /\ Quiet
CallSendOrderStatusUpdate ==
    \E p \in Publishers, s \in NotifiedStatuses :
        Call(p, SendOrderStatusUpdatePlan(s)) /\ Quiet
CallCreateItemStatusNotification ==
    \E p \in Publishers : Call(p, CreateItemStatusNotificationPlan) /\ Quiet
CallCreateDashboardUpdateNotification ==
    \E p \in Publishers : Call(p, CreateDashboardUpdateNotificationPlan) /\ Quiet

PublisherNextClient == \E p \in Publishers : PubIterNext(p) /\ Quiet
PublisherWrites == \E p \in Publishers : PubWrite(p) /\ Quiet
PublisherDropsClient == \E p \in Publishers : PubDelete(p) /\ Quiet

\* The steps of publishing task p inside SendToRoom.
PubStep(p) == (PubIterNext(p) \/ PubWrite(p) \/ PubDelete(p)) /\ Quiet

NextHub ==
    \/ ClientConnects
    \/ ClientSubscribes
    \/ ClientGone
    \/ ClientClosed
    \/ RunTakesRegister
    \/ RunRegisters
    \/ RunTakesUnregister
    \/ RunUnregisters
    \/ RunTakesBroadcast
    \/ RunNextClient
    \/ RunWrites
    \/ RunDropsClient
    \/ CallBroadcast
    \/ CallCreateOrderStatusNotification
    \/ CallSendOrderStatusUpdate
    \/ CallCreateItemStatusNotification
    \/ CallCreateDashboardUpdateNotification
    \/ PublisherNextClient
    \/ PublisherWrites
    \/ PublisherDropsClient

SpecHub == Init /\ [][NextHub]_vars

\* Every goroutine that can take a step is eventually scheduled.
SpecHubFair ==
    SpecHub /\ WF_vars(RunStep) /\ \A p \in Publishers : WF_vars(PubStep(p))

\* ================================================ handlers with failing writes
\* A store write may fail (connection lost, lock wait timeout, constraint).  The
\* writes of a handler are numbered in program order; `failed` is the set of
\* those that return an error.  The response carries `failed` for the
\* properties only.

\* The request items whose DB.Create(&orderItem) succeeds: item i is write i + 1.
RECURSIVE StoredItems(_, _, _)
StoredItems(items, failed, i) ==
    IF i > Len(items) THEN << >>
    ELSE (IF (i + 1) \in failed THEN << >> ELSE <<items[i]>>)
         \o StoredItems(items, failed, i + 1)

\* The writes HandleCreateOrder attempts: the order, each item, the table.
CreateOrderWrites(tableReq, items) ==
    1..(1 + Len(items) + (IF tableReq # NULL THEN 1 ELSE 0))

\* POST /orders: only the error of DB.Create(&order) is looked at.
HandleCreateOrderFailing(tableReq, items, failed) ==
    /\ nextOrderID <= MaxOrders
    /\ failed \subseteq CreateOrderWrites(tableReq, items)
    /\ 1 \in failed => failed = {1}
    /\ LET orderNumber == now
           stored == StoredItems(items, failed, 1)
           tableWrite == 2 + Len(items)
       IN IF 1 \in failed \/ \E o \in DOMAIN orders : orders[o].order_number = orderNumber
          THEN /\ resp' = Response("CreateOrder", 500, NULL, tableReq, NULL, "")
                            @@ [failed |-> failed]
               /\ UNCHANGED <<dbVars, hubVars>>
          ELSE /\ orders' = orders @@ (nextOrderID :> NewOrder(tableReq, items, orderNumber))
               /\ orderItems' = orderItems @@ NewOrderItems(nextOrderID, stored, nextItemID)
               /\ nextItemID' = nextItemID + Len(stored)
               /\ tables' = IF tableReq # NULL /\ tableWrite \notin failed
                            THEN OccupyTable(tables, tableReq, nextOrderID)
                            ELSE tables
               /\ nextOrderID' = nextOrderID + 1
               /\ resp' = Response("CreateOrder", 201, nextOrderID, tableReq, NULL, "pending")
                            @@ [failed |-> failed]
               /\ UNCHANGED hubVars

\* The writes HandleUpdateOrderStatus attempts: the order, then the table.
UpdateOrderStatusWrites(order, status) ==
    IF status \in {"completed", "cancelled"} /\ order.table_id # NULL THEN {1, 2} ELSE {1}

\* PUT /orders/:id/status: only the error of the order's Updates is looked at.
HandleUpdateOrderStatusFailing(id, status, failed) ==
    IF id \notin DOMAIN orders
    THEN /\ failed = {}
         /\ resp' = Response("UpdateOrderStatus", 404, id, NULL, NULL, status)
                      @@ [failed |-> failed]
         /\ UNCHANGED <<dbVars, hubVars>>
    ELSE /\ failed \subseteq UpdateOrderStatusWrites(orders[id], status)
         /\ 1 \in failed => failed = {1}
         /\ IF 1 \in failed
            THEN /\ resp' = Response("UpdateOrderStatus", 500, id, NULL, NULL, status)
                              @@ [failed |-> failed]
                 /\ UNCHANGED <<dbVars, hubVars>>
            ELSE /\ orders' = [orders EXCEPT ![id] = StatusUpdates(orders[id], status, now)]
                 /\ tables' = IF 2 \in failed
                              THEN tables
                              ELSE TablesAfterStatus(tables, orders[id], status)
                 /\ resp' = Response("UpdateOrderStatus", 200, id, NULL, NULL, status)
                              @@ [failed |-> failed]
                 /\ UNCHANGED <<orderItems, nextOrderID, nextItemID, hubVars>>

\* PUT /tables/:id/transfer: no error of its three writes is looked at.
HandleTransferTableFailing(id, toTableID, failed) ==
    /\ failed \subseteq 1..3
    /\ LET freed == IF 1 \in failed THEN tables ELSE FreeTable(tables, id)
       IN tables' = IF 2 \in failed THEN freed
                    ELSE SetTableStatus(freed, toTableID, "occupied")
    /\ orders' = IF 3 \in failed THEN orders ELSE MoveOrders(orders, id, toTableID)
    /\ resp' = Response("TransferTable", 200, NULL, id, toTableID, "")
                 @@ [failed |-> failed]
    /\ UNCHANGED <<orderItems, nextOrderID, nextItemID, hubVars>>

\* Every set of writes a handler of at most MaxWrites writes can see fail.
MaxWrites == 4

CreateOrderFailing ==
    \E t \in TableIDs \cup {NULL}, items \in ItemRequests, failed \in SUBSET (1..MaxWrites) :
        Serve /\ HandleCreateOrderFailing(t, items, failed)

UpdateOrderStatusFailing ==
    \E id \in 1..MaxOrders, s \in StatusSet, failed \in SUBSET (1..MaxWrites) :
        Serve /\ HandleUpdateOrderStatusFailing(id, s, failed)

TransferTableFailing ==
    \E t \in TableIDs, to \in TableIDs, failed \in SUBSET (1..MaxWrites) :
        Serve /\ HandleTransferTableFailing(t, to, failed)

NextFailing ==
    \/ Tick
    \/ CreateOrderFailing
    \/ UpdateOrderStatusFailing
    \/ TransferTableFailing

SpecFailing == Init /\ [][NextFailing]_vars

\* ======================================================= items of an order
MaxItems == 4

\* The bodies sent to POST /orders/:id/items.
AddItemRequests == { [menu_item_id |-> 1, quantity |-> 1, modifiers |-> {1}],
                     [menu_item_id |-> 2, quantity |-> 2, modifiers |-> {}],
                     [menu_item_id |-> 1, quantity |-> 0, modifiers |-> {}],
                     [menu_item_id |-> 1, quantity |-> -1, modifiers |-> {}],
                     [menu_item_id |-> 3, quantity |-> 1, modifiers |-> {}],
                     [menu_item_id |-> 4, quantity |-> 1, modifiers |-> {}] }

\* c.ShouldBindJSON(&req) on CreateOrderItemRequest: binding:"required" rejects
\* the zero value of menu_item_id and of quantity, and nothing else.
BindsItemRequest(req) == req.menu_item_id # 0 /\ req.quantity # 0

\* The bodies sent to PUT /orders/:id/items/:itemId; Updates(struct) skips the
\* zero-valued fields (quantity 0, status "").
ItemUpdates == { [quantity |-> 3, status |-> ""],
                 [quantity |-> 0, status |-> "cancelled"] }

\* The discounts sent to PUT /orders/:id, in money units.
DiscountInputs == {5 * MoneyScale, 100 * MoneyScale}

\* subtotal += float64(item.Quantity) * item.UnitPrice, over the rows `ids`.
RECURSIVE SumLines(_, _)
SumLines(rows, ids) ==
    IF ids = {} THEN 0
    ELSE LET i == CHOOSE j \in ids : TRUE
         IN rows[i].quantity * rows[i].unit_price + SumLines(rows, ids \ {i})

\* a.DB.Where("order_id = ?", orderID).Find(&items)
ItemsOf(rows, orderID) == {i \in DOMAIN rows : rows[i].order_id = orderID}

\* The totals recalculateOrderTotal computes from the rows it has read.
TotalsFrom(subtotal) ==
    [subtotal       |-> subtotal,
     tax_amount     |-> TaxOf(subtotal),
     service_charge |-> ServiceChargeOf(subtotal),
     total          |-> subtotal + TaxOf(subtotal) + ServiceChargeOf(subtotal)]

\* A faulty variant of WriteTotals: the computed amounts are added to the
\* stored ones instead of replacing them.
WriteTotalsAdding(ords, orderID, t) ==
    [o \in DOMAIN ords |->
        IF o = orderID
        THEN [ords[o] EXCEPT !.subtotal = @ + t.subtotal,
                             !.tax_amount = @ + t.tax_amount,
                             !.service_charge = @ + t.service_charge,
                             !.total = @ + t.total]
        ELSE ords[o]]

\* UPDATE orders SET subtotal, tax_amount, service_charge, total WHERE id=orderID
WriteTotals(ords, orderID, t) ==
    [o \in DOMAIN ords |->
        IF o = orderID
        THEN [ords[o] EXCEPT !.subtotal = t.subtotal, !.tax_amount = t.tax_amount,
                             !.service_charge = t.service_charge, !.total = t.total]
        ELSE ords[o]]

recalculateOrderTotal(ords, rows, orderID) ==
    WriteTotals(ords, orderID, TotalsFrom(SumLines(rows, ItemsOf(rows, orderID))))

\* The OrderItem row HandleAddOrderItem builds.
NewOrderItem(orderID, req) ==
    [ order_id     |-> orderID,
      menu_item_id |-> req.menu_item_id,
      quantity     |-> req.quantity,
      unit_price   |-> MenuPrice(req.menu_item_id),
      modifiers    |-> req.modifiers,
      status       |-> "pending" ]

\* a.DB.Model(&orderItem).Updates(updates): the non-zero fields of the body.
ApplyItemUpdates(row, updates) ==
    [row EXCEPT !.quantity = IF updates.quantity # 0 THEN updates.quantity ELSE @,
                !.status = IF updates.status # "" THEN updates.status ELSE @]

\* POST /orders/:id/items
HandleAddOrderItem(id, req) ==
    /\ nextItemID <= MaxItems
    /\ IF ~BindsItemRequest(req)
       THEN /\ resp' = Response("AddOrderItem", 400, id, NULL, NULL, "")
            /\ UNCHANGED <<dbVars, hubVars>>
       ELSE IF id \notin DOMAIN orders
       THEN /\ resp' = Response("AddOrderItem", 404, id, NULL, NULL, "")
            /\ UNCHANGED <<dbVars, hubVars>>
       ELSE LET rows == orderItems @@ (nextItemID :> NewOrderItem(id, req))
            IN /\ orderItems' = rows
               /\ nextItemID' = nextItemID + 1
               /\ orders' = recalculateOrderTotal(orders, rows, id)
               /\ resp' = Response("AddOrderItem", 201, id, NULL, NULL, "")
               /\ UNCHANGED <<tables, nextOrderID, hubVars>>

\* PUT /orders/:id/items/:itemId
HandleUpdateOrderItem(id, itemID, updates) ==
    IF itemID \notin ItemsOf(orderItems, id)
    THEN /\ resp' = Response("UpdateOrderItem", 404, id, NULL, NULL, "")
         /\ UNCHANGED <<dbVars, hubVars>>
    ELSE LET rows == [orderItems EXCEPT ![itemID] = ApplyItemUpdates(@, updates)]
         IN /\ orderItems' = rows
            /\ orders' = recalculateOrderTotal(orders, rows, id)
            /\ resp' = Response("UpdateOrderItem", 200, id, NULL, NULL, "")
            /\ UNCHANGED <<tables, nextOrderID, nextItemID, hubVars>>

\* DELETE /orders/:id/items/:itemId
HandleDeleteOrderItem(id, itemID) ==
    LET rows == [i \in DOMAIN orderItems \ (ItemsOf(orderItems, id) \cap {itemID})
                    |-> orderItems[i]]
    IN /\ orderItems' = rows
       /\ orders' = recalculateOrderTotal(orders, rows, id)
       /\ resp' = Response("DeleteOrderItem", 200, id, NULL, NULL, "")
       /\ UNCHANGED <<tables, nextOrderID, nextItemID, hubVars>>

\* PUT /orders/:id with a body that sets discount (every other field zero)
HandleUpdateOrderDiscount(id, discount) ==
    IF id \notin DOMAIN orders
    THEN /\ resp' = Response("UpdateOrderDiscount", 404, id, NULL, NULL, "")
         /\ UNCHANGED <<dbVars, hubVars>>
    ELSE /\ orders' = [orders EXCEPT ![id].discount = discount]
         /\ resp' = Response("UpdateOrderDiscount", 200, id, NULL, NULL, "")
         /\ UNCHANGED <<orderItems, tables, nextOrderID, nextItemID, hubVars>>

AddOrderItem ==
    \E id \in 1..MaxOrders, req \in AddItemRequests : Serve /\ HandleAddOrderItem(id, req)

UpdateOrderItem ==
    \E id \in 1..MaxOrders, i \in 1..MaxItems, u \in ItemUpdates :
        Serve /\ HandleUpdateOrderItem(id, i, u)

DeleteOrderItem ==
    \E id \in 1..MaxOrders, i \in 1..MaxItems : Serve /\ HandleDeleteOrderItem(id, i)

UpdateOrderDiscount ==
    \E id \in 1..MaxOrders, d \in DiscountInputs : Serve /\ HandleUpdateOrderDiscount(id, d)

NextItems ==
    \/ Tick
    \/ CreateOrder
    \/ AddOrderItem
    \/ UpdateOrderItem
    \/ DeleteOrderItem
    \/ UpdateOrderDiscount

SpecItems == Init /\ [][NextItems]_vars

\* ------------------------------- item handlers, one store statement at a time
\* Two callers run HandleAddOrderItem, HandleUpdateOrderItem or
\* HandleDeleteOrderItem at once.  Each handler is its write of order_items,
\* then recalculateOrderTotal's Find, then recalculateOrderTotal's Updates;
\* nothing holds the order between them.

\* HandleAddOrderItem up to DB.Create(&orderItem).
ItemCallAdd(p, id, req) ==
    /\ itemCalls[p].pc = "idle"
    /\ BindsItemRequest(req)
    /\ id \in DOMAIN orders
    /\ nextItemID <= MaxItems
    /\ orderItems' = orderItems @@ (nextItemID :> NewOrderItem(id, req))
    /\ nextItemID' = nextItemID + 1
    /\ itemCalls' = [itemCalls EXCEPT ![p] =
                        [pc |-> "written", op |-> "AddOrderItem", id |-> id, subtotal |-> 0]]
    /\ UNCHANGED <<orders, tables, nextOrderID, now, resp, requests, xfer, loyalty, hubVars>>

\* HandleUpdateOrderItem up to Updates(updates).
ItemCallUpdate(p, id, itemID, updates) ==
    /\ itemCalls[p].pc = "idle"
    /\ itemID \in ItemsOf(orderItems, id)
    /\ orderItems' = [orderItems EXCEPT ![itemID] = ApplyItemUpdates(@, updates)]
    /\ itemCalls' = [itemCalls EXCEPT ![p] =
                        [pc |-> "written", op |-> "UpdateOrderItem", id |-> id, subtotal |-> 0]]
    /\ UNCHANGED <<orders, tables, nextOrderID, nextItemID, now, resp, requests, xfer, loyalty, hubVars>>

\* HandleDeleteOrderItem up to Delete(&OrderItem{}).
ItemCallDelete(p, id, itemID) ==
    /\ itemCalls[p].pc = "idle"
    /\ id \in DOMAIN orders
    /\ orderItems' = [i \in DOMAIN orderItems \ (ItemsOf(orderItems, id) \cap {itemID})
                        |-> orderItems[i]]
    /\ itemCalls' = [itemCalls EXCEPT ![p] =
                        [pc |-> "written", op |-> "DeleteOrderItem", id |-> id, subtotal |-> 0]]
    /\ UNCHANGED <<orders, tables, nextOrderID, nextItemID, now, resp, requests, xfer, loyalty, hubVars>>

\* recalculateOrderTotal: Find(&items) and the subtotal loop.
ItemCallRead(p) ==
    /\ itemCalls[p].pc = "written"
    /\ itemCalls' = [itemCalls EXCEPT
                        ![p].pc = "read",
                        ![p].subtotal = SumLines(orderItems, ItemsOf(orderItems, itemCalls[p].id))]
    /\ UNCHANGED <<dbVars, now, resp, requests, xfer, loyalty, hubVars>>

\* recalculateOrderTotal: Updates(map) of the order; the handler then answers.
ItemCallWriteTotals(p) ==
    /\ itemCalls[p].pc = "read"
    /\ orders' = WriteTotals(orders, itemCalls[p].id, TotalsFrom(itemCalls[p].subtotal))
    /\ itemCalls' = [itemCalls EXCEPT ![p].pc = "done"]
    /\ resp' = Response(itemCalls[p].op,
                        IF itemCalls[p].op = "AddOrderItem" THEN 201 ELSE 200,
                        itemCalls[p].id, NULL, NULL, "")
    /\ UNCHANGED <<orderItems, tables, nextOrderID, nextItemID, now, requests, xfer, loyalty, hubVars>>

ItemAddBegins ==
    \E p \in Callers, id \in 1..MaxOrders, req \in AddItemRequests : ItemCallAdd(p, id, req)
ItemUpdateBegins ==
    \E p \in Callers, id \in 1..MaxOrders, i \in 1..MaxItems, u \in ItemUpdates :
        ItemCallUpdate(p, id, i, u)
ItemDeleteBegins ==
    \E p \in Callers, id \in 1..MaxOrders, i \in 1..MaxItems : ItemCallDelete(p, id, i)
ItemsRead == \E p \in Callers : ItemCallRead(p)
TotalsWritten == \E p \in Callers : ItemCallWriteTotals(p)

\* Orders are placed first; the item requests then run against them.
PlaceOrderForItems ==
    /\ \A p \in Callers : itemCalls[p].pc = "idle"
    /\ CreateOrder

NextItemsRace ==
    \/ Tick
    \/ PlaceOrderForItems
    \/ ItemAddBegins
    \/ ItemUpdateBegins
    \/ ItemDeleteBegins
    \/ ItemsRead
    \/ TotalsWritten

SpecItemsRace == Init /\ [][NextItemsRace]_vars

\* ------------------------------------------------- order creation by itself
\* POST /orders with a wider choice of item lists, every item on the menu.
OrderItemLists ==
    ItemRequests \cup
    { << [menu_item_id |-> 1, quantity |-> 1, modifiers |-> {}] >>,
      << [menu_item_id |-> 3, quantity |-> 2, modifiers |-> {}],
         [menu_item_id |-> 2, quantity |-> 3, modifiers |-> {1}] >> }

CreateOrderFrom ==
    \E t \in TableIDs \cup {NULL}, items \in OrderItemLists :
        Serve /\ HandleCreateOrder(t, items)

NextCreate ==
    \/ Tick
    \/ CreateOrderFrom

SpecCreate == Init /\ [][NextCreate]_vars

\* ------------------------------------------- loyalty points, one statement at a time
\* Two callers run LoyaltyService.AddLoyaltyPoints and RedeemLoyaltyPoints for
\* customer 1 at once.  No transaction and no row lock spans the statements of
\* one call.
MaxCalls == 3

\* The customers table holds customer 1 only.
CustomerIDs == {1}

\* The customerID arguments: customer 1, and customer 2 who does not exist.
CustomerInputs == {1, 2}

\* The points arguments.
PointsInputs == {5, 10}

LoyaltyQuiet == UNCHANGED <<dbVars, now, resp, requests, xfer, itemCalls, hubVars>>

LoyaltyReturn(p, earned, redeemed) ==
    [loyalty EXCEPT !.calls[p] = IdleLoyaltyCall,
                    !.earned = @ + earned,
                    !.redeemed = @ + redeemed]

\* AddLoyaltyPoints up to DB.Create(transaction); the order the points are
\* earned on must exist (loyalty_transactions.order_id references orders).
AddLoyaltyPointsCreate(p, points, orderID) ==
    /\ loyalty.calls[p].pc = "idle"
    /\ loyalty.begun < MaxCalls
    /\ IF orderID \in DOMAIN orders
       THEN loyalty' = [loyalty EXCEPT
                !.begun = @ + 1,
                !.transactions = Append(@, [type |-> "earned", points |-> points]),
                !.calls[p] = [pc |-> "created", op |-> "add", points |-> points, held |-> 0]]
       ELSE loyalty' = [loyalty EXCEPT !.begun = @ + 1]
    /\ LoyaltyQuiet

\* AddLoyaltyPoints: points + ?, total_spent + ?, visits_count + 1; return nil.
AddLoyaltyPointsUpdate(p) ==
    /\ loyalty.calls[p].pc = "created"
    /\ loyalty.calls[p].op = "add"
    /\ loyalty' = [LoyaltyReturn(p, loyalty.calls[p].points, 0) EXCEPT
                      !.points = @ + loyalty.calls[p].points,
                      !.total_spent = @ + loyalty.calls[p].points,
                      !.visits_count = @ + 1]
    /\ LoyaltyQuiet

\* RedeemLoyaltyPoints: l.DB.First(&customer, customerID)
RedeemLoyaltyPointsFirst(p, customerID, points) ==
    /\ loyalty.calls[p].pc = "idle"
    /\ loyalty.begun < MaxCalls
    /\ IF customerID \in CustomerIDs
       THEN loyalty' = [loyalty EXCEPT
                !.begun = @ + 1,
                !.calls[p] = [pc |-> "read", op |-> "redeem", points |-> points,
                              held |-> loyalty.points]]
       ELSE loyalty' = [loyalty EXCEPT !.begun = @ + 1]
    /\ LoyaltyQuiet

\* RedeemLoyaltyPoints: if customer.Points < points, return the error;
\* otherwise DB.Create(transaction).
RedeemLoyaltyPointsCheck(p) ==
    /\ loyalty.calls[p].pc = "read"
    /\ IF loyalty.calls[p].held < loyalty.calls[p].points
       THEN loyalty' = LoyaltyReturn(p, 0, 0)
       ELSE loyalty' = [loyalty EXCEPT
                !.transactions = Append(@, [type |-> "redeemed",
                                            points |-> 0 - loyalty.calls[p].points]),
                !.calls[p].pc = "created"]
    /\ LoyaltyQuiet

\* RedeemLoyaltyPoints: Update("points", gorm.Expr("points - ?", points)); return nil.
RedeemLoyaltyPointsUpdate(p) ==
    /\ loyalty.calls[p].pc = "created"
    /\ loyalty.calls[p].op = "redeem"
    /\ loyalty' = [LoyaltyReturn(p, 0, loyalty.calls[p].points) EXCEPT
                      !.points = @ - loyalty.calls[p].points]
    /\ LoyaltyQuiet

LoyaltyAddBegins ==
    \E p \in Callers, n \in PointsInputs, o \in 1..MaxOrders : AddLoyaltyPointsCreate(p, n, o)

LoyaltyAddUpdates == \E p \in Callers : AddLoyaltyPointsUpdate(p)

LoyaltyRedeemReads ==
    \E p \in Callers, c \in CustomerInputs, n \in PointsInputs : RedeemLoyaltyPointsFirst(p, c, n)

LoyaltyRedeemChecks == \E p \in Callers : RedeemLoyaltyPointsCheck(p)

LoyaltyRedeemUpdates == \E p \in Callers : RedeemLoyaltyPointsUpdate(p)

\* The order the points are earned on is placed first.
PlaceOrderForLoyalty ==
    /\ loyalty.begun = 0
    /\ CreateOrder

NextLoyalty ==
    \/ PlaceOrderForLoyalty
    \/ LoyaltyAddBegins
    \/ LoyaltyAddUpdates
    \/ LoyaltyRedeemReads
    \/ LoyaltyRedeemChecks
    \/ LoyaltyRedeemUpdates

SpecLoyalty == Init /\ [][NextLoyalty]_vars

\* ================================================================ properties
\* A request was served in this step and answered by the named handler.
Answered(op) == requests' = requests + 1 /\ resp'.op = op

Rejected == resp'.code \notin {200, 201}

\* Forward along pending .. completed, or to cancelled, and never out of a
\* terminal status.
ValidTransition(from, to) == ~IsTerminal(from) /\ StatusRank(to) > StatusRank(from)

\* C1: once an order is completed or cancelled, every status request on it is
\* rejected and its row and the tables stay as they were.
C1_TerminalIsFinal ==
    [][\A id \in DOMAIN orders :
          (Answered("UpdateOrderStatus") /\ resp'.order = id /\ IsTerminal(orders[id].status))
          => (Rejected /\ orders' = orders /\ tables' = tables)]_vars

\* C2: through the status endpoint and through the generic order update, a
\* request for the same or an earlier status is rejected and changes nothing,
\* and a forward request (skips included) succeeds and stores the new status.
C2_ForwardOnly ==
    [][\A id \in DOMAIN orders :
          ((Answered("UpdateOrderStatus") \/ Answered("UpdateOrder")) /\ resp'.order = id)
          => IF ValidTransition(orders[id].status, resp'.status)
             THEN resp'.code = 200 /\ orders'[id].status = resp'.status
             ELSE Rejected /\ orders' = orders /\ tables' = tables]_vars

\* C3: a table's current_order_id is set exactly when the table is occupied
\* and the order it references is in the store and not terminal.
C3_TableInvariant ==
    \A t \in TableIDs :
        (tables[t].current_order_id # NULL)
        <=> (tables[t].status = "occupied" /\ IsActive(tables[t].current_order_id))

\* No table is linked to two active orders.
OneActiveOrderPerTable ==
    \A o1, o2 \in DOMAIN orders :
        (o1 # o2 /\ ~IsTerminal(orders[o1].status) /\ ~IsTerminal(orders[o2].status)
            /\ orders[o1].table_id # NULL)
        => orders[o1].table_id # orders[o2].table_id

\* C4: creating an order on a table that holds an active order is rejected,
\* the table still references that order, and no table has two active orders.
C4_TableOccupied ==
    [][\A t \in TableIDs :
          (Answered("CreateOrder") /\ resp'.table = t
              /\ IsActive(tables[t].current_order_id))
          => (Rejected
              /\ tables'[t].current_order_id = tables[t].current_order_id
              /\ OneActiveOrderPerTable')]_vars

\* C5: a transfer to a table that holds a different active order is rejected
\* and leaves both tables and all orders as they were.
C5_TargetOccupied ==
    [][\A from, to \in TableIDs :
          (Answered("TransferTable") /\ resp'.table = from /\ resp'.to = to
              /\ from # to
              /\ IsActive(tables[from].current_order_id)
              /\ IsActive(tables[to].current_order_id)
              /\ tables[to].current_order_id # tables[from].current_order_id)
          => (Rejected /\ tables' = tables /\ orders' = orders)]_vars

\* C6: of two transfers of the same order from one table to another that are
\* in flight together, exactly one reports success, and afterwards no table
\* points at an order that is not on it.
C6_OneTransferWins ==
    \A p, q \in Callers :
        (p # q /\ xfer[p].pc = "done" /\ xfer[q].pc = "done"
            /\ xfer[p].id = xfer[q].id /\ xfer[p].to = xfer[q].to
            /\ xfer[p].id # xfer[p].to
            /\ xfer[p].moving # {} /\ xfer[p].moving = xfer[q].moving)
        => /\ (xfer[p].code = 200) # (xfer[q].code = 200)
           /\ \A t \in TableIDs :
                 tables[t].current_order_id # NULL
                 => /\ tables[t].current_order_id \in DOMAIN orders
                    /\ orders[tables[t].current_order_id].table_id = t

\* C7: an event published to a room is written to no connection that has
\* subscribed only to other rooms (a kitchen event never reaches a connection
\* subscribed only to pos).
C7_RoomIsolation ==
    [][\A c \in Conns :
          (delivered'[c] # delivered[c] /\ conn[c].rooms # {})
          => LET e == delivered'[c][Len(delivered'[c])]
             IN e.room = "all" \/ e.room \in conn[c].rooms]_vars

\* C8: while the process runs, a publishing call that has started returns, and
\* a connection whose writes complete and that a broadcast is about to reach
\* is written to, even when a write to another connection never completes.
InCall(p) == pub[p].pc \notin {"idle", "done"}

C8_PublishNeverWaits ==
    /\ \A p \in Publishers : (InCall(p) /\ ~fatal) ~> (pub[p].pc = "done" \/ fatal)
    /\ \A c \in Conns :
          (run.pc \in {"iter", "write"} /\ c \in run.todo /\ c \in clients
              /\ conn[c].link = "ok" /\ conn[c].state = "reading" /\ ~fatal)
          ~> (c \notin run.todo \/ fatal)

\* C9: Run never writes the registry (registration, disconnect, removal after
\* a failed write) while a publishing task is inside its loop over it.
C9_RegistryNotShared == ~(RunModifies /\ PublisherUsesRegistry)

\* C10: every successful status transition hands an order_status event to the
\* hub: a publishing call starts whose plan broadcasts to all and, for ready,
\* sends to kitchen and waiters, for completed or cancelled, to pos and tables.
RoomsOf(plan) == {plan[i].room : i \in 1..Len(plan)}

TargetRooms(status) ==
    {"all"} \cup (IF status = "ready" THEN {"kitchen", "waiters"} ELSE {})
            \cup (IF status \in TerminalStatuses THEN {"pos", "tables"} ELSE {})

C10_TransitionEmitsEvent ==
    [][(Answered("UpdateOrderStatus") /\ resp'.code = 200)
          => \E p \in Publishers :
                /\ pub[p].pc = "idle"
                /\ pub'[p].pc # "idle"
                /\ RoomsOf(pub'[p].plan) = TargetRooms(resp'.status)]_vars

\* C11: CreateOrder, a status transition and TransferTable are all-or-nothing:
\* when one of the store writes of a request fails, no other write of that
\* request is visible afterwards.
C11_AllOrNothing ==
    [][(requests' = requests + 1 /\ resp'.failed # {}) => dbVars' = dbVars]_vars

\* The subtotal the items of an order call for: over its items that are not
\* cancelled, quantity times (unit price plus the prices of the chosen modifiers).
RECURSIVE ModifierSum(_)
ModifierSum(ms) ==
    IF ms = {} THEN 0
    ELSE LET k == CHOOSE j \in ms : TRUE IN ModifierPrice(k) + ModifierSum(ms \ {k})

RECURSIVE ExpectedLines(_, _)
ExpectedLines(rows, ids) ==
    IF ids = {} THEN 0
    ELSE LET i == CHOOSE j \in ids : TRUE
         IN (IF rows[i].status = "cancelled" THEN 0
             ELSE rows[i].quantity * (rows[i].unit_price + ModifierSum(rows[i].modifiers)))
            + ExpectedLines(rows, ids \ {i})

ExpectedSubtotal(rows, orderID) == ExpectedLines(rows, ItemsOf(rows, orderID))

\* A request on the items of an order was served and succeeded in this step.
ItemsChanged ==
    /\ requests' = requests + 1
    /\ resp'.op \in {"AddOrderItem", "UpdateOrderItem", "DeleteOrderItem"}
    /\ resp'.code \in {200, 201}
    /\ resp'.order \in DOMAIN orders'

\* C13: after AddItem, UpdateItem or RemoveItem the stored subtotal is the sum
\* over the order's non-cancelled items of quantity times (unit price plus
\* modifier prices).
C13_SubtotalOfItems ==
    [][ItemsChanged
          => orders'[resp'.order].subtotal = ExpectedSubtotal(orderItems', resp'.order)]_vars

\* C14: after every creation or recalculation of an order its total is
\* subtotal + tax + service charge - discount, and 0 when that is negative.
FlooredTotal(o) ==
    LET t == o.subtotal + o.tax_amount + o.service_charge - o.discount
    IN IF t < 0 THEN 0 ELSE t

C14_TotalFormula ==
    [][(ItemsChanged \/ (Answered("CreateOrder") /\ resp'.code = 201))
          => orders'[resp'.order].total = FlooredTotal(orders'[resp'.order])]_vars

\* C12: once concurrent item requests on one order have all returned, the
\* stored subtotal, tax, service charge and total are the ones computed from
\* the items the order then has.
C12_TotalsMatchFinalItems ==
    \A id \in DOMAIN orders :
        ((\E p \in Callers : itemCalls[p].id = id)
            /\ \A p \in Callers : itemCalls[p].id = id => itemCalls[p].pc = "done")
        => LET t == TotalsFrom(SumLines(orderItems, ItemsOf(orderItems, id)))
           IN /\ orders[id].subtotal = t.subtotal
              /\ orders[id].tax_amount = t.tax_amount
              /\ orders[id].service_charge = t.service_charge
              /\ orders[id].total = t.total

\* C15: no order ever has both completed_at and cancelled_at set.
C15_OneTerminalTimestamp ==
    \A o \in DOMAIN orders :
        ~(orders[o].completed_at # NULL /\ orders[o].cancelled_at # NULL)

\* The table of an order, if it has one, is available and references no order.
Released(tbls, order) ==
    order.table_id # NULL
    => tbls[order.table_id] = [status |-> "available", current_order_id |-> NULL]

\* A status request for `status` on order id succeeded in this step.
StatusSetTo(id, status) ==
    /\ Answered("UpdateOrderStatus")
    /\ resp'.order = id
    /\ resp'.code = 200
    /\ resp'.status = status

\* C16: a successful status request that takes a non-terminal order to
\* completed stamps completed_at, sets payment_status to paid and releases the
\* order's table.
C16_CompletedEffects ==
    [][\A id \in DOMAIN orders :
          (StatusSetTo(id, "completed") /\ ~IsTerminal(orders[id].status))
          => /\ orders'[id].status = "completed"
             /\ orders'[id].completed_at = now
             /\ orders'[id].completed_at # NULL
             /\ orders'[id].payment_status = "paid"
             /\ Released(tables', orders[id])]_vars

\* C16 witness: order 1, placed on a table, has just been taken from pending to
\* completed by the second request.
C16_Witness ==
    /\ requests = 2
    /\ resp.op = "UpdateOrderStatus" /\ resp.code = 200 /\ resp.status = "completed"
    /\ resp.order \in DOMAIN orders
    /\ orders[resp.order].table_id # NULL
    /\ orders[resp.order].payment_status = "paid"
    /\ orders[resp.order].completed_at # NULL
    /\ tables[orders[resp.order].table_id].status = "available"

\* C17: a status request that takes a pending order straight to cancelled
\* succeeds, stamps cancelled_at, leaves completed_at unset and payment_status
\* as it was, and releases the order's table.
C17_CancelPending ==
    [][\A id \in DOMAIN orders :
          (Answered("UpdateOrderStatus") /\ resp'.order = id /\ resp'.status = "cancelled"
              /\ orders[id].status = "pending" /\ orders[id].completed_at = NULL)
          => /\ resp'.code = 200
             /\ orders'[id].status = "cancelled"
             /\ orders'[id].cancelled_at = now
             /\ orders'[id].cancelled_at # NULL
             /\ orders'[id].completed_at = NULL
             /\ orders'[id].payment_status = orders[id].payment_status
             /\ Released(tables', orders[id])]_vars

\* C17 witness: order 1, placed on a table, has just been cancelled while
\* pending by the second request.
C17_Witness ==
    /\ requests = 2
    /\ resp.op = "UpdateOrderStatus" /\ resp.code = 200 /\ resp.status = "cancelled"
    /\ resp.order \in DOMAIN orders
    /\ orders[resp.order].table_id # NULL
    /\ orders[resp.order].status = "cancelled"
    /\ orders[resp.order].cancelled_at # NULL
    /\ orders[resp.order].completed_at = NULL
    /\ orders[resp.order].payment_status = "unpaid"
    /\ tables[orders[resp.order].table_id] = [status |-> "available", current_order_id |-> NULL]

\* Connection c was in the registry and has been taken out of it.
Removed(c) ==
    /\ c \notin clients
    /\ conn[c].state \in {"reading", "unregistering", "closing", "closed"}
    /\ ~(run.pc = "register" /\ run.cur = c)

\* C18: a connection taken out of the registry (failed write, or disconnect)
\* is never again picked as the recipient of a write, by Run or by a
\* publishing task; and a task whose write to a connection failed does not
\* come back to that connection in the same loop.
C18_RemovedGetsNothing ==
    [][/\ \A c \in Conns :
             Removed(c)
             => /\ (run.pc = "iter" /\ run'.pc = "write") => run'.cur # c
                /\ \A p \in Publishers :
                      (pub[p].pc = "iter" /\ pub'[p].pc = "write") => pub'[p].cur # c
       /\ (run.pc = "del" /\ run'.pc = "iter")
             => (run.cur \notin clients' /\ run.cur \notin run'.todo)
       /\ \A p \in Publishers :
             (pub[p].pc = "del" /\ pub'[p].pc = "iter")
             => (pub[p].cur \notin clients' /\ pub[p].cur \notin pub'[p].todo)]_vars

\* C18 witness: a write to connection c failed and c was dropped while its
\* reader still runs; the same publishing call, now in its second loop, is
\* writing to the other connection, which already holds the first event.
C18_Witness ==
    \E c, d \in Conns, p \in Publishers :
        /\ c # d
        /\ Removed(c) /\ conn[c].link = "broken" /\ conn[c].state = "reading"
        /\ delivered[c] = << >>
        /\ Len(delivered[d]) = 1
        /\ pub[p].pc = "write" /\ pub[p].cur = d
        /\ c \notin pub[p].todo

\* Run and a publishing task are not both inside WriteMessage on one connection.
SingleWriter ==
    ~(run.pc = "write" /\ \E p \in Publishers : pub[p].pc = "write" /\ pub[p].cur = run.cur)

\* Run writes task p's broadcast to connection c after c was already written
\* the event of the SendToRoom call p is making now, which p began after its
\* Broadcast call returned.
Overtaken(c, p) ==
    /\ run.pc = "write" /\ run.cur = c /\ run.from = p
    /\ delivered'[c] = Append(delivered[c], [from |-> p, room |-> run.room])
    /\ InLoop(pub[p])
    /\ \E i \in 1..Len(delivered[c]) :
          delivered[c][i] = [from |-> p, room |-> Head(pub[p].plan).room]

\* C19: at most one task writes to a connection at a time, and on each
\* connection an event published through Broadcast is written before any
\* event the same caller published later through SendToRoom.
C19_OrderedSingleWriter ==
    [][SingleWriter' /\ \A c \in Conns, p \in Publishers : ~Overtaken(c, p)]_vars

\* The order half of C19 on its own.
C19_NeverOvertaken ==
    [][\A c \in Conns, p \in Publishers : ~Overtaken(c, p)]_vars

\* How many times connection c was written the event of task p (a task makes
\* one notification call, which publishes one event).
TimesWritten(c, p) ==
    Cardinality({i \in 1..Len(delivered[c]) : delivered[c][i].from = p})

\* C20: one published event is written to each connection at most once,
\* however many rooms it is targeted at.
C20_AtMostOnce ==
    \A c \in Conns, p \in Publishers : TimesWritten(c, p) <= 1

\* Run's loop over a broadcast covers the whole registry: it starts with every
\* registered connection still to be written, whatever the connection has
\* subscribed to; a connection leaves the ones still to be written only by
\* being picked for a write; and the loop ends only when none of them is left
\* in the registry.
BroadcastCoversRegistry ==
    /\ (run.pc = "select" /\ run'.pc = "iter") => (run'.room = "all" /\ run'.todo = clients)
    /\ (InLoop(run) /\ InLoop(run'))
          => \/ run'.todo = run.todo
             \/ (run.pc = "iter" /\ run'.pc = "write" /\ run'.cur \in run.todo
                   /\ run'.todo = run.todo \ {run'.cur})
    /\ (InLoop(run) /\ ~InLoop(run') /\ ~fatal') => run.todo \cap clients = {}

\* No connection Run has still to write to is taken out of the registry.
PendingStaysRegistered ==
    \A c \in Conns : (InLoop(run) /\ c \in run.todo /\ c \in clients) => c \in clients'

Inserted == {i \in DOMAIN orderItems' : i \notin DOMAIN orderItems}

\* C22: an AddItem request with quantity below 1 or for an inactive menu item
\* is refused, creates no order item and leaves the order's totals as they were.
C22_AddItemValidated ==
    [][Answered("AddOrderItem")
          => \A i \in Inserted :
                /\ orderItems'[i].quantity >= 1
                /\ (orderItems'[i].menu_item_id \in MenuItemIDs
                       => IsAvailable(orderItems'[i].menu_item_id))]_vars

\* C23: removing an order item that is not there answers not-found and changes
\* nothing, and no request stores an order item for a menu item that does not
\* exist.
C23_MissingIsNotFound ==
    [][/\ (Answered("DeleteOrderItem") /\ orderItems' = orderItems)
             => (resp'.code = 404 /\ orders' = orders)
       /\ \A i \in Inserted : orderItems'[i].menu_item_id \in MenuItemIDs]_vars

\* C24: every stored order has remaining = total - paid_amount, and remaining
\* is never negative.
C24_RemainingIsBalance ==
    \A o \in DOMAIN orders :
        /\ orders[o].remaining = orders[o].total - orders[o].paid_amount
        /\ orders[o].remaining >= 0

\* Sum of quantity times menu price over the rows `ids`.
RECURSIVE MenuPriceSum(_, _)
MenuPriceSum(rows, ids) ==
    IF ids = {} THEN 0
    ELSE LET i == CHOOSE j \in ids : TRUE
         IN rows[i].quantity * MenuPrice(rows[i].menu_item_id)
            + MenuPriceSum(rows, ids \ {i})

\* The step stored 2 of menu item 1 (10.00) and 1 of menu item 2 (5.00).
StoredTwoTensOneFive ==
    /\ Cardinality(Inserted) = 2
    /\ \E i \in Inserted : orderItems'[i].menu_item_id = 1 /\ orderItems'[i].quantity = 2
    /\ \E i \in Inserted : orderItems'[i].menu_item_id = 2 /\ orderItems'[i].quantity = 1

\* C25: a successful CreateOrder stores subtotal = sum of quantity times menu
\* price over the requested items, tax = subtotal times the tax rate, service
\* charge = subtotal times the service-charge rate, total = their sum, status
\* pending and payment status unpaid; for 2 at 10.00 and 1 at 5.00 with rates
\* 14% and 10% that is 25.00, 3.50, 2.50 and 31.00.
C25_CreateOrderTotals ==
    [][(Answered("CreateOrder") /\ resp'.code = 201)
          => LET o == orders'[resp'.order]
                 sub == MenuPriceSum(orderItems', Inserted)
             IN /\ resp'.order \notin DOMAIN orders
                /\ \A i \in Inserted : orderItems'[i].order_id = resp'.order
                /\ o.subtotal = sub
                /\ o.tax_amount * 100 = sub * TaxRatePct
                /\ o.service_charge * 100 = sub * ServiceChargePct
                /\ o.total = o.subtotal + o.tax_amount + o.service_charge
                /\ o.status = "pending"
                /\ o.payment_status = "unpaid"
                /\ StoredTwoTensOneFive
                      => /\ o.subtotal * 100 = 2500 * MoneyScale
                         /\ o.tax_amount * 100 = 350 * MoneyScale
                         /\ o.service_charge * 100 = 250 * MoneyScale
                         /\ o.total * 100 = 3100 * MoneyScale]_vars

\* C25 witness: the order just created holds 2 of item 1 and 1 of item 2 and
\* its stored total is 31.00.
C25_Witness ==
    /\ resp.op = "CreateOrder" /\ resp.code = 201
    /\ LET rows == ItemsOf(orderItems, resp.order)
       IN /\ Cardinality(rows) = 2
          /\ \E i \in rows : orderItems[i].menu_item_id = 1 /\ orderItems[i].quantity = 2
          /\ \E i \in rows : orderItems[i].menu_item_id = 2 /\ orderItems[i].quantity = 1
    /\ orders[resp.order].total = 31 * MoneyScale
    /\ orders[resp.order].status = "pending"

\* The last answered request ran recalculateOrderTotal on its order.
Recalculated(r) ==
    /\ r.op \in {"AddOrderItem", "UpdateOrderItem", "DeleteOrderItem"}
    /\ r.code \in {200, 201}

\* C26: recalculating an order's totals a second time, with no change to its
\* items or to the rates since the first run, leaves subtotal, tax, service
\* charge and total as the first run stored them.
C26_RecalculateIdempotent ==
    [][/\ (Recalculated(resp) /\ resp.order \in DOMAIN orders /\ Answered("DeleteOrderItem")
              /\ resp'.order = resp.order /\ orderItems' = orderItems)
          => orders' = orders
       /\ (requests' = requests + 1 /\ Recalculated(resp'))
          => recalculateOrderTotal(orders', orderItems', resp'.order) = orders']_vars

\* C26 witness: an order was created, an item was added to it (first
\* recalculation), and a removal that matched no row has recalculated it again.
C26_Witness ==
    /\ requests = 3
    /\ resp.op = "DeleteOrderItem" /\ resp.code = 200
    /\ DOMAIN orderItems = 1..3
    /\ ItemsOf(orderItems, resp.order) = 1..3
    /\ orders[resp.order].subtotal = SumLines(orderItems, 1..3)
    /\ orders[resp.order].subtotal > 0

\* C27: a completed/cancelled request on an order releases a table only if
\* that table's current order is the order being transitioned; a table that
\* has since been given to another active order stays occupied by that order.
C27_ReleaseOnlyOwnTable ==
    [][(Answered("UpdateOrderStatus") /\ resp'.code = 200 /\ IsTerminal(resp'.status))
          => \A t \in TableIDs :
                (tables[t].current_order_id # resp'.order
                    /\ IsActive(tables[t].current_order_id))
                => tables'[t] = tables[t]]_vars

\* C28: TransferTable changes the table reference of the source table's
\* current active order only; every completed or cancelled order keeps the
\* table_id it had.
C28_TransferMovesActiveOnly ==
    [][(Answered("TransferTable") /\ resp'.code = 200)
          => \A o \in DOMAIN orders :
                IsTerminal(orders[o].status) => orders'[o].table_id = orders[o].table_id]_vars

\* C29: every CreateOrder call with valid input succeeds, also a second one in
\* the same clock second, and the new order's number differs from the number
\* of every order already stored.
C29_CreateNeverBlocked ==
    [][Answered("CreateOrder")
          => /\ resp'.code = 201
             /\ \A o \in DOMAIN orders :
                   orders[o].order_number # orders'[resp'.order].order_number]_vars

\* A RedeemLoyaltyPoints call goes past its check, or returns.
RedeemDecides(p) ==
    loyalty.calls[p].pc = "read" /\ loyalty'.calls[p].pc # "read"

\* C30: the balance is never below zero; a redeem for more points than the
\* customer holds returns the error and records nothing; and once all
\* concurrent calls have returned the balance is what was earned minus the
\* points of the redeem calls that reported success.
C30_BalanceNeverNegative ==
    /\ [](loyalty.points >= 0)
    /\ []((\A p \in Callers : loyalty.calls[p].pc = "idle")
             => loyalty.points = loyalty.earned - loyalty.redeemed)
    /\ [][\A p \in Callers :
             (RedeemDecides(p) /\ loyalty.points < loyalty.calls[p].points)
                => (loyalty'.calls[p].pc = "idle"
                      /\ loyalty'.transactions = loyalty.transactions
                      /\ loyalty'.redeemed = loyalty.redeemed)]_vars
====
